---- MODULE Spec2Model ----
(***************************************************************************)
(* Gemini File Search: a FastAPI facade (main.py, api/stores.py,           *)
(* api/documents.py, api/query.py) over the remote file-search service,    *)
(* reached through the GeminiClient singleton (api/client.py).             *)
(*                                                                         *)
(* Python values.  An object is a function from the attribute names it     *)
(* has to their values.  A value that may be None is a sequence of length  *)
(* 0 (None) or 1 (the value), so hasattr(o, "f") is "f" \in DOMAIN o and   *)
(* an attribute that is present but None is o.f = None.                    *)
(***************************************************************************)
EXTENDS Integers, Sequences, FiniteSets, TLC

\* ------------------------------------------------------------- bounds
\* stores the remote service creates, upload requests the server accepts,
\* and upload requests in flight at once
MaxStores == 2
MaxUploads == 2
MaxInflight == 1

\* ------------------------------------------------------ Python values
None == <<>>
Some(v) == <<v>>
IsNone(x) == Len(x) = 0
Val(x) == x[1]

\* hasattr(o, f)
hasattr(o, f) == f \in DOMAIN o
\* getattr(o, f, d): the attribute when the object has it (None included),
\* the default only when the attribute is missing.  getattr(None, f, d) is d.
getattr(o, f, d) == IF f \in DOMAIN o THEN o[f] ELSE d

Ok(v) == [raised |-> FALSE, value |-> v]
Raise(m) == [raised |-> TRUE, msg |-> m]

\* ------------------------------------------------------- identifiers
\* the names the remote service hands out, in the order it creates them
IdSeq == <<"s1", "s2", "s3", "s4">>
OpSeq == <<"o1", "o2", "o3", "o4">>
DocSeq == <<"d1", "d2", "d3", "d4">>
StoreIds == {IdSeq[i] : i \in 1..MaxStores}
OpIds == {OpSeq[i] : i \in 1..MaxUploads}
DocIds == {DocSeq[i] : i \in 1..MaxUploads}

\* f'fileSearchStores/{store_id}'
StoreName(sid) == <<"fileSearchStores", sid>>
\* f'fileSearchStores/{store_id}/documents/{document_id}'
DocumentName(sid, did) == <<"fileSearchStores", sid, "documents", did>>

\* --------------------------------------------- client.py: request shaping
\* A Python dict is a sequence of [key, value] entries with distinct keys, in
\* insertion order; a parsed JSON value is [type, items].
DictKeys(d) == {d[i].key : i \in 1..Len(d)}

\* d[k] = v on a dict: an existing key keeps its position and takes the new
\* value, a new key is appended.
DictSet(d, k, v) ==
    IF k \in DictKeys(d)
    THEN [i \in 1..Len(d) |-> IF d[i].key = k THEN [key |-> k, value |-> v] ELSE d[i]]
    ELSE Append(d, [key |-> k, value |-> v])

\* Python truthiness of an Optional[str] / Optional[dict] / Optional[list]
Truthy(x) == ~IsNone(x) /\ Len(Val(x)) > 0
TruthyJson(x) == ~IsNone(x) /\ Len(Val(x).items) > 0

\* a faulty variant of MetadataPairs: the last entry is lost
MetadataPairsDropLast(items) ==
    [i \in 1..(Len(items) - 1) |-> [key |-> items[i].key, string_value |-> items[i].value]]
\* [{'key': k, 'string_value': v} for k, v in metadata.items()]
MetadataPairs(items) ==
    [i \in 1..Len(items) |-> [key |-> items[i].key, string_value |-> items[i].value]]

\* GeminiClient.upload_document: the config sent with the upload.
\* display_name is None or a string (a sequence of characters); metadata is
\* None or a parsed JSON value.  A truthy non-dict has no .items().
UploadConfig(display_name, metadata) ==
    IF TruthyJson(metadata) /\ Val(metadata).type # "dict"
    THEN Raise("AttributeError: object has no attribute 'items'")
    ELSE Ok((IF Truthy(display_name)
                THEN "display_name" :> Val(display_name) ELSE <<>>)
            @@ (IF TruthyJson(metadata)
                THEN "custom_metadata" :> MetadataPairs(Val(metadata).items)
                ELSE <<>>))

\* GeminiClient.create_store: config = {} unless display_name is truthy
CreateConfig(display_name) ==
    IF Truthy(display_name) THEN "display_name" :> Val(display_name) ELSE <<>>

\* a faulty variant of ForceConfig: force is always sent
ForceConfigAlways(force) == "force" :> TRUE
\* GeminiClient.delete_store / delete_document:
\* config = {'force': force} if force else {}
ForceConfig(force) == IF force THEN "force" :> force ELSE <<>>

\* ----------------------------------------- documents.py: json.loads(metadata)
\* The metadata form field is a text; a text is a sequence of JSON tokens:
\* the punctuation { } [ ] : , and string literals (any other token).
Punct == {"{", "}", "[", "]", ":", ","}
IsStr(t) == t \notin Punct

\* members k : v , k : v ... between the braces, left to right
RECURSIVE ParseMembers(_, _)
ParseMembers(toks, d) ==
    IF Len(toks) = 0 THEN Ok(d)
    ELSE IF Len(toks) >= 3 /\ IsStr(toks[1]) /\ toks[2] = ":" /\ IsStr(toks[3])
    THEN LET d2 == DictSet(d, toks[1], toks[3])
         IN  IF Len(toks) = 3 THEN Ok(d2)
             ELSE IF toks[4] = "," /\ Len(toks) > 4
             THEN ParseMembers(SubSeq(toks, 5, Len(toks)), d2)
             ELSE Raise("JSONDecodeError: Expecting ',' delimiter")
    ELSE Raise("JSONDecodeError: Expecting property name enclosed in double quotes")

\* a faulty variant of json.loads: a text that does not parse counts as {}
json_loadsLenient(toks) ==
    IF Len(toks) >= 2 /\ toks[1] = "{" /\ toks[Len(toks)] = "}"
       /\ ~ParseMembers(SubSeq(toks, 2, Len(toks) - 1), <<>>).raised
    THEN Ok([type |-> "dict",
             items |-> ParseMembers(SubSeq(toks, 2, Len(toks) - 1), <<>>).value])
    ELSE Ok([type |-> "dict", items |-> <<>>])
json_loads(toks) ==
    IF Len(toks) = 0 THEN Raise("JSONDecodeError: Expecting value")
    ELSE IF toks[1] = "{"
    THEN IF Len(toks) >= 2 /\ toks[Len(toks)] = "}"
         THEN LET r == ParseMembers(SubSeq(toks, 2, Len(toks) - 1), <<>>)
              IN  IF r.raised THEN r ELSE Ok([type |-> "dict", items |-> r.value])
         ELSE Raise("JSONDecodeError: Expecting property name enclosed in double quotes")
    ELSE IF Len(toks) = 1 /\ IsStr(toks[1])
    THEN Ok([type |-> "str", items |-> <<toks[1]>>])
    ELSE IF toks = <<"[", "]">> THEN Ok([type |-> "list", items |-> <<>>])
    ELSE IF Len(toks) = 3 /\ toks[1] = "[" /\ IsStr(toks[2]) /\ toks[3] = "]"
    THEN Ok([type |-> "list", items |-> <<toks[2]>>])
    ELSE Raise("JSONDecodeError: Expecting value")

\* ------------------------------------- stores.py / documents.py: summaries
\* x.f for each f in fs: an AttributeError when one is missing
HasAll(o, fs) == fs \subseteq DOMAIN o

StoreRequired == {"name", "display_name", "create_time", "update_time"}
StoreOptional == {"active_documents_count", "pending_documents_count",
                  "failed_documents_count", "size_bytes"}
StoreFields == StoreRequired \cup StoreOptional

\* the dict built for one store in list_stores and get_store
StoreSummary(s) ==
    IF HasAll(s, StoreRequired)
    THEN Ok([f \in StoreFields |->
                IF f \in StoreRequired THEN s[f] ELSE getattr(s, f, Some(0))])
    ELSE Raise("AttributeError: object has no attribute")

DocRequired == {"name", "display_name", "create_time", "update_time",
                "state", "size_bytes", "mime_type"}
DocFields == DocRequired \cup {"custom_metadata"}

\* [{'key': m.key, 'value': m.string_value} for m in getattr(d, 'custom_metadata', [])]
CustomMetadataList(d) ==
    LET ms == getattr(d, "custom_metadata", Some(<<>>))
    IN  IF IsNone(ms) THEN Raise("TypeError: 'NoneType' object is not iterable")
        ELSE IF \E i \in 1..Len(Val(ms)) : ~HasAll(Val(ms)[i], {"key", "string_value"})
        THEN Raise("AttributeError: object has no attribute")
        ELSE Ok([i \in 1..Len(Val(ms)) |->
                    [key |-> Val(ms)[i].key, value |-> Val(ms)[i].string_value]])

\* the dict built for one document in list_documents and get_document
DocumentSummary(d) ==
    IF ~HasAll(d, DocRequired)
    THEN Raise("AttributeError: object has no attribute")
    ELSE LET cm == CustomMetadataList(d)
         IN  IF cm.raised THEN cm
             ELSE Ok([f \in DocFields |->
                        IF f = "custom_metadata" THEN Some(cm.value) ELSE d[f]])

\* a list comprehension over records: the first exception ends it
RECURSIVE CollectSummaries(_)
CollectSummaries(outs) ==
    IF Len(outs) = 0 THEN Ok(<<>>)
    ELSE LET h == Head(outs)
         IN  IF h.raised THEN h
             ELSE LET t == CollectSummaries(Tail(outs))
                  IN  IF t.raised THEN t ELSE Ok(<<h.value>> \o t.value)
StoreSummaries(recs) == CollectSummaries([i \in 1..Len(recs) |-> StoreSummary(recs[i])])
DocumentSummaries(recs) ==
    CollectSummaries([i \in 1..Len(recs) |-> DocumentSummary(recs[i])])

\* ------------------------------------------------ query.py: search result
\* A text is a sequence of characters.
\* re.sub(D ([^c]+) D, r'\1', s) where D is the character c repeated k times:
\* scanning left to right, a match at i needs k times c, then the longest
\* non-empty run without c, then k times c again (a shorter run would put a
\* non-c character where the closing delimiter must stand); a match is
\* replaced by the run and the scan goes on behind it.
AllAt(s, i, k, c) == i + k - 1 <= Len(s) /\ \A j \in i..(i + k - 1) : s[j] = c

\* the end of the longest run of characters other than c starting at i
RECURSIVE RunEnd(_, _, _)
RunEnd(s, i, c) ==
    IF i <= Len(s) /\ s[i] # c THEN RunEnd(s, i + 1, c) ELSE i - 1

RECURSIVE SubFrom(_, _, _, _)
SubFrom(s, i, c, k) ==
    IF i > Len(s) THEN <<>>
    ELSE LET e == RunEnd(s, i + k, c)
         IN  IF AllAt(s, i, k, c) /\ e >= i + k /\ AllAt(s, e + 1, k, c)
             THEN SubSeq(s, i + k, e) \o SubFrom(s, e + 1 + k, c, k)
             ELSE <<s[i]>> \o SubFrom(s, i + 1, c, k)

ReSub(s, c, k) == SubFrom(s, 1, c, k)

\* the four substitutions, in the order of the source
StripMarkdown(t) ==
    ReSub(ReSub(ReSub(ReSub(t, "*", 2), "_", 2), "*", 1), "_", 1)

\* an attribute value that is None has no attributes
PyObj(x) == IF IsNone(x) THEN <<>> ELSE Val(x)

\* {'title': getattr(ctx, 'title', ''), 'uri': getattr(ctx, 'uri', '')}
Citation(ctx) ==
    [title |-> getattr(PyObj(ctx), "title", Some(<<>>)),
     uri |-> getattr(PyObj(ctx), "uri", Some(<<>>))]

\* for chunk in grounding.grounding_chunks: if hasattr(chunk, 'retrieved_context')
RECURSIVE ChunkCitations(_)
ChunkCitations(chunks) ==
    IF Len(chunks) = 0 THEN <<>>
    ELSE (IF hasattr(Head(chunks), "retrieved_context")
          THEN <<Citation(Head(chunks).retrieved_context)>> ELSE <<>>)
         \o ChunkCitations(Tail(chunks))

\* result['citations'] as the handler fills it from response.candidates[0]
ExtractCitations(response) ==
    IF hasattr(response, "candidates") /\ Truthy(response.candidates)
    THEN LET candidate == Val(response.candidates)[1]
         IN  IF hasattr(candidate, "grounding_metadata")
             THEN LET grounding == PyObj(candidate.grounding_metadata)
                  IN  IF hasattr(grounding, "grounding_chunks")
                      THEN IF IsNone(grounding.grounding_chunks)
                           THEN Raise("TypeError: 'NoneType' object is not iterable")
                           ELSE Ok(ChunkCitations(Val(grounding.grounding_chunks)))
                      ELSE Ok(<<>>)
             ELSE Ok(<<>>)
    ELSE Ok(<<>>)

\* the body search() returns for a response, or the exception it raises
SearchResult(response) ==
    LET text == IF hasattr(response, "text") THEN response.text ELSE Some(<<>>)
    IN  IF IsNone(text)
        THEN Raise("TypeError: expected string or bytes-like object")
        ELSE LET cits == ExtractCitations(response)
             IN  IF cits.raised THEN cits
                 ELSE Ok([text |-> StripMarkdown(Val(text)), citations |-> cits.value])

\* ------------------------------------------------------------ routing
\* APIRouter(prefix=...) of each module, and main.py's include_router calls,
\* which add no prefix of their own.
StoresPrefix == <<"api", "stores">>
DocumentsPrefix == <<"stores">>
QueryPrefix == <<"api", "query">>

Params == {"{store_id}", "{document_id}", "{operation_id}"}

Route(m, prefix, path, h) == [method |-> m, pattern |-> prefix \o path, handler |-> h]

\* the routes in the order main.py registers them
Routes == <<
    Route("POST", StoresPrefix, <<>>, "create_store"),
    Route("GET", StoresPrefix, <<>>, "list_stores"),
    Route("GET", StoresPrefix, <<"{store_id}">>, "get_store"),
    Route("DELETE", StoresPrefix, <<"{store_id}">>, "delete_store"),
    Route("POST", DocumentsPrefix, <<"{store_id}", "upload">>, "upload_document"),
    Route("GET", DocumentsPrefix, <<"{store_id}", "documents">>, "list_documents"),
    Route("GET", DocumentsPrefix, <<"documents", "{document_id}">>, "get_document"),
    Route("DELETE", DocumentsPrefix, <<"{store_id}", "documents", "{document_id}">>,
          "delete_document"),
    Route("GET", DocumentsPrefix, <<"operations", "{operation_id}">>,
          "get_operation_status"),
    Route("POST", QueryPrefix, <<>>, "search"),
    Route("POST", QueryPrefix, <<"document", "{document_id}">>, "query_document"),
    Route("GET", <<>>, <<>>, "dashboard"),
    Route("GET", <<>>, <<"stores", "{store_id}">>, "store_detail") >>

\* a path parameter matches one whole segment
Matches(pattern, path) ==
    /\ Len(pattern) = Len(path)
    /\ \A i \in 1..Len(path) : pattern[i] \in Params \/ pattern[i] = path[i]

Min(S) == CHOOSE x \in S : \A y \in S : x <= y

\* the first route whose path and method match; a path that matches under
\* another method only is 405, a path nothing matches is 404
Dispatch(method, path) ==
    LET hit == {i \in 1..Len(Routes) : Matches(Routes[i].pattern, path)}
        full == {i \in hit : Routes[i].method = method}
    IN  IF full # {} THEN Routes[Min(full)].handler
        ELSE IF hit # {} THEN "405" ELSE "404"

\* the value of path parameter p in a request routed to handler h
PathParam(method, path, p) ==
    LET r == Routes[Min({i \in 1..Len(Routes) :
                 Matches(Routes[i].pattern, path) /\ Routes[i].method = method})]
    IN  path[CHOOSE i \in 1..Len(path) : r.pattern[i] = p]

\* the requests clients send: one per route of the application, the
\* upload and list-documents endpoints at the documented /api/stores paths
\* as well, and one request with a method its path does not take
Req(m, p) == [method |-> m, path |-> p]
DocumentSurface(pre) ==
    UNION {{Req("POST", pre \o <<s, "upload">>),
            Req("GET", pre \o <<s, "documents">>)} : s \in StoreIds}
Requests ==
    {Req("POST", <<"api", "stores">>), Req("GET", <<"api", "stores">>),
     Req("POST", <<"api", "query">>), Req("DELETE", <<"api", "query">>),
     Req("GET", <<>>)}
    \cup UNION {{Req("GET", <<"api", "stores", s>>),
                 Req("DELETE", <<"api", "stores", s>>),
                 Req("GET", <<"stores", s>>)} : s \in StoreIds}
    \cup {Req("POST", <<"api", "query", "document", d>>) : d \in DocIds}
    \cup DocumentSurface(<<"api", "stores">>)
    \cup DocumentSurface(<<"stores">>)
    \cup UNION {{Req("GET", <<"stores", "documents", d>>),
                 Req("DELETE", <<"stores", s, "documents", d>>)} :
                <<s, d>> \in StoreIds \X DocIds}
    \cup {Req("GET", <<"stores", "operations", o>>) : o \in OpIds}
RequestsFor(h) == {r \in Requests : Dispatch(r.method, r.path) = h}

\* -------------------------------------------------------------- state
VARIABLES
    apiKey,      \* os.getenv('GEMINI_API_KEY') is set
    instance,    \* GeminiClient._instance: 0 (None) or the wrapper object
    client,      \* _client as the wrapper sees it: 0 (None) or the transport
    objects,     \* wrapper objects allocated so far
    transports,  \* genai.Client objects constructed so far
    stores,      \* remote: the ids of the stores that exist
    created,     \* remote: stores created so far
    uploads,     \* remote: one [store, done, doc] per accepted upload, its
                 \*   operation OpSeq[i] and its document DocSeq[i]
    tmpFiles,    \* the temporary files on the server's disk
    nextTmp,     \* temporary files created so far
    inflight,    \* upload requests waiting in "await file.read()"
    issued,      \* history: the operation names upload responses returned
    last,        \* the request handled last and its response
    arg,         \* the input of the function a function specification applies
    res          \* its result (NotRun before)

clientVars == <<instance, client, objects, transports>>
remoteVars == <<stores, created, uploads>>
diskVars == <<tmpFiles, nextTmp, inflight, issued>>
vars == <<apiKey, instance, client, objects, transports, stores,
          created, uploads, tmpFiles, nextTmp, inflight, issued, last, arg, res>>

\* main.py raises at import when the key is missing: no request is served
serving == apiKey

\* ------------------------------------------------ client.py: the singleton
\* __new__: allocate the wrapper only when cls._instance is None
GeminiClient_new ==
    IF instance = 0
    THEN [instance |-> objects + 1, objects |-> objects + 1]
    ELSE [instance |-> instance, objects |-> objects]

\* a faulty variant of __init__: a transport is built on every construction
GeminiClient_initAlways ==
    IF ~apiKey
    THEN [raised |-> TRUE, msg |-> "GEMINI_API_KEY not found in environment",
          client |-> client, transports |-> transports]
    ELSE [raised |-> FALSE, msg |-> "",
          client |-> transports + 1, transports |-> transports + 1]
\* __init__: build the transport only when self._client is None
GeminiClient_init ==
    IF client = 0
    THEN IF ~apiKey
         THEN [raised |-> TRUE, msg |-> "GEMINI_API_KEY not found in environment",
               client |-> client, transports |-> transports]
         ELSE [raised |-> FALSE, msg |-> "",
               client |-> transports + 1, transports |-> transports + 1]
    ELSE [raised |-> FALSE, msg |-> "", client |-> client, transports |-> transports]

\* GeminiClient(): __new__ then __init__, with no await in between
Acquire ==
    /\ instance' = GeminiClient_new.instance
    /\ objects' = GeminiClient_new.objects
    /\ client' = GeminiClient_init.client
    /\ transports' = GeminiClient_init.transports

\* ------------------------------------------------- the remote service
\* what a remote call may fail with whatever the state of the resource
Faults == {"503 UNAVAILABLE"}
Outcomes == {""} \cup Faults
NotFound == "404 NOT_FOUND"
NotEmpty == "400 FAILED_PRECONDITION: store is not empty"

DocsOf(sid) == {i \in 1..Len(uploads) : uploads[i].store = sid /\ uploads[i].doc}
Count(sid, done) == Cardinality({i \in DocsOf(sid) : uploads[i].done = done})

\* every store of this specification is created under one display name
StoreDisplayName == <<"n">>

\* the record the service returns for a store
StoreRecord(sid) ==
    [name |-> Some(StoreName(sid)), display_name |-> Some(StoreDisplayName),
     create_time |-> Some("t"), update_time |-> Some("t"),
     active_documents_count |-> Some(Count(sid, TRUE)),
     pending_documents_count |-> Some(Count(sid, FALSE)),
     failed_documents_count |-> Some(0),
     size_bytes |-> Some(Cardinality(DocsOf(sid)))]

\* the record the service returns for the document of upload i
DocRecord(i) ==
    [name |-> Some(DocumentName(uploads[i].store, DocSeq[i])),
     display_name |-> Some("f.txt"),
     create_time |-> Some("t"), update_time |-> Some("t"),
     state |-> Some(IF uploads[i].done THEN "STATE_ACTIVE" ELSE "STATE_PENDING"),
     size_bytes |-> Some(1), mime_type |-> Some("text/plain"),
     custom_metadata |-> Some(<<>>)]

\* file_search_stores.delete(name, config): a store that holds documents is
\* deleted only with config.force
RemoteDeleteStore(sid, config) ==
    IF sid \notin stores THEN Raise(NotFound)
    ELSE IF DocsOf(sid) # {} /\ ~("force" \in DOMAIN config /\ config["force"])
    THEN Raise(NotEmpty)
    ELSE Ok([stores |-> stores \ {sid},
             uploads |-> [i \in 1..Len(uploads) |->
                            IF uploads[i].store = sid
                            THEN [uploads[i] EXCEPT !.doc = FALSE]
                            ELSE uploads[i]]])

\* ------------------------------------------------------- responses
Response(h, req, status, body, calls, sid, force) ==
    [handler |-> h, method |-> req.method, path |-> req.path, status |-> status,
     body |-> body, calls |-> calls, sid |-> sid, force |-> force, held |-> {}]

\* a faulty variant of HTTPException: the exception's message is dropped
HTTPExceptionGeneric(status_code, detail) ==
    [status |-> status_code, body |-> [detail |-> "Internal Server Error"]]
\* raise HTTPException(status_code=..., detail=str(e))
HTTPException(status_code, detail) == [status |-> status_code, body |-> [detail |-> detail]]

Respond(h, req, out, calls, sid, force) ==
    last' = Response(h, req, out.status, out.body, calls, sid, force)

\* ------------------------------------------------- stores.py handlers
\* POST /api/stores
create_store(req, display_name, fault) ==
    /\ serving
    /\ created < MaxStores
    /\ Acquire
    /\ LET g == GeminiClient_init
           sid == IdSeq[created + 1]
           config == CreateConfig(display_name)
           store == [name |-> Some(StoreName(sid)),
                     display_name |-> IF "display_name" \in DOMAIN config
                                      THEN Some(config["display_name"]) ELSE None,
                     create_time |-> Some("t")]
       IN  IF g.raised
           THEN /\ Respond("create_store", req, HTTPException(500, g.msg), <<>>, "", FALSE)
                /\ UNCHANGED remoteVars
           ELSE IF fault # ""
           THEN /\ Respond("create_store", req, HTTPException(500, fault),
                           <<"create">>, "", FALSE)
                /\ UNCHANGED remoteVars
           ELSE /\ stores' = stores \cup {sid}
                /\ created' = created + 1
                /\ UNCHANGED uploads
                /\ last' = Response("create_store", req, 200,
                              [name |-> store.name,
                               display_name |-> store.display_name,
                               create_time |-> store.create_time],
                              <<"create">>, "", FALSE)
    /\ UNCHANGED <<apiKey, arg, res, diskVars>>

\* the stores the service lists, in creation order
RECURSIVE StoreList(_)
StoreList(i) ==
    IF i > created THEN <<>>
    ELSE (IF IdSeq[i] \in stores THEN <<StoreRecord(IdSeq[i])>> ELSE <<>>)
         \o StoreList(i + 1)

\* GET /api/stores
list_stores(req, fault) ==
    /\ serving
    /\ Acquire
    /\ LET g == GeminiClient_init
           body == StoreSummaries(StoreList(1))
       IN  IF g.raised
           THEN Respond("list_stores", req, HTTPException(500, g.msg), <<>>, "", FALSE)
           ELSE IF fault # ""
           THEN Respond("list_stores", req, HTTPException(500, fault), <<"list">>, "", FALSE)
           ELSE IF body.raised
           THEN Respond("list_stores", req, HTTPException(500, body.msg), <<"list">>, "", FALSE)
           ELSE last' = Response("list_stores", req, 200, [stores |-> body.value],
                                 <<"list">>, "", FALSE)
    /\ UNCHANGED <<apiKey, arg, res, remoteVars, diskVars>>

\* GET /api/stores/{store_id}: every exception becomes a 404
get_store(req, fault) ==
    /\ serving
    /\ Acquire
    /\ LET g == GeminiClient_init
           sid == PathParam(req.method, req.path, "{store_id}")
           body == StoreSummary(StoreRecord(sid))
       IN  IF g.raised
           THEN Respond("get_store", req, HTTPException(404, g.msg), <<>>, sid, FALSE)
           ELSE IF fault # ""
           THEN Respond("get_store", req, HTTPException(404, fault), <<"get">>, sid, FALSE)
           ELSE IF sid \notin stores
           THEN Respond("get_store", req, HTTPException(404, NotFound), <<"get">>, sid, FALSE)
           ELSE IF body.raised
           THEN Respond("get_store", req, HTTPException(404, body.msg), <<"get">>, sid, FALSE)
           ELSE last' = Response("get_store", req, 200, body.value, <<"get">>, sid, FALSE)
    /\ UNCHANGED <<apiKey, arg, res, remoteVars, diskVars>>

\* DELETE /api/stores/{store_id}?force=: force is False when the query omits
\* it.  last.held keeps the documents the store held when the request came.
delete_store(req, force_q, fault) ==
    /\ serving
    /\ Acquire
    /\ LET g == GeminiClient_init
           sid == PathParam(req.method, req.path, "{store_id}")
           force == IF IsNone(force_q) THEN FALSE ELSE Val(force_q)
           r == RemoteDeleteStore(sid, ForceConfig(force))
           err == IF g.raised THEN g.msg
                  ELSE IF fault # "" THEN fault
                  ELSE IF r.raised THEN r.msg ELSE ""
           calls == IF g.raised THEN <<>> ELSE <<"delete">>
           out == IF err # "" THEN HTTPException(500, err)
                  ELSE [status |-> 200, body |-> [message |-> "Store deleted successfully"]]
       IN  /\ last' = [Response("delete_store", req, out.status, out.body, calls, sid, force)
                          EXCEPT !.held = DocsOf(sid)]
           /\ IF err # ""
              THEN UNCHANGED <<stores, uploads>>
              ELSE /\ stores' = r.value.stores
                   /\ uploads' = r.value.uploads
    /\ UNCHANGED <<apiKey, arg, res, created, diskVars>>

\* ---------------------------------------------- documents.py handlers
Filename == <<"f">>

\* POST {prefix}/{store_id}/upload, up to "await file.read()": the temporary
\* file exists (NamedTemporaryFile(delete=False)) and the handler yields
upload_begin(req, metadata) ==
    /\ serving
    /\ nextTmp < MaxUploads
    /\ Cardinality(inflight) < MaxInflight
    /\ nextTmp' = nextTmp + 1
    /\ tmpFiles' = tmpFiles \cup {nextTmp + 1}
    /\ inflight' = inflight \cup {[tmp |-> nextTmp + 1, req |-> req, metadata |-> metadata]}
    /\ UNCHANGED <<apiKey, arg, res, clientVars, remoteVars, issued, last>>

\* a faulty variant of UploadBody: the store's name in place of the operation's
UploadBodyStoreName(operation, sid) ==
    [operation_name |-> Some(sid), done |-> operation.done,
     message |-> "Upload initiated"]
\* the body of a successful upload: the operation the service returned
UploadBody(operation, sid) ==
    [operation_name |-> operation.name, done |-> operation.done,
     message |-> "Upload initiated"]

\* the rest of upload_document: write, parse the metadata, upload, unlink.
\* os.unlink(tmp_path) is reached only when nothing before it raised.
upload_finish(u, fault) ==
    /\ u \in inflight
    /\ inflight' = inflight \ {u}
    /\ LET sid == PathParam(u.req.method, u.req.path, "{store_id}")
           parsed == IF Truthy(u.metadata) THEN json_loads(Val(u.metadata)) ELSE Ok(None)
           metadata_dict == IF Truthy(u.metadata) THEN Some(parsed.value) ELSE None
           g == GeminiClient_init
           config == UploadConfig(Some(Filename), metadata_dict)
           operation == [name |-> Some(OpSeq[Len(uploads) + 1]), done |-> Some(FALSE)]
           err == IF parsed.raised THEN parsed.msg
                  ELSE IF g.raised THEN g.msg
                  ELSE IF config.raised THEN config.msg
                  ELSE IF fault # "" THEN fault
                  ELSE IF sid \notin stores THEN NotFound
                  ELSE ""
           called == ~parsed.raised /\ ~g.raised /\ ~config.raised
       IN  /\ IF parsed.raised THEN UNCHANGED clientVars ELSE Acquire
           /\ tmpFiles' = IF err = "" THEN tmpFiles \ {u.tmp} ELSE tmpFiles
           /\ IF err # ""
              THEN /\ UNCHANGED <<uploads, issued>>
                   /\ Respond("upload_document", u.req, HTTPException(500, err),
                              IF called THEN <<"upload_to_file_search_store">> ELSE <<>>,
                              sid, FALSE)
              ELSE /\ uploads' = Append(uploads, [store |-> sid, done |-> FALSE, doc |-> TRUE])
                   /\ issued' = Append(issued, UploadBody(operation, sid).operation_name)
                   /\ last' = Response("upload_document", u.req, 200,
                                 UploadBody(operation, sid),
                                 <<"upload_to_file_search_store">>, sid, FALSE)
    /\ UNCHANGED <<apiKey, arg, res, stores, created, nextTmp>>

RECURSIVE DocList(_, _)
DocList(sid, i) ==
    IF i > Len(uploads) THEN <<>>
    ELSE (IF i \in DocsOf(sid) THEN <<DocRecord(i)>> ELSE <<>>) \o DocList(sid, i + 1)

\* GET {prefix}/{store_id}/documents
list_documents(req, fault) ==
    /\ serving
    /\ Acquire
    /\ LET g == GeminiClient_init
           sid == PathParam(req.method, req.path, "{store_id}")
           body == DocumentSummaries(DocList(sid, 1))
           err == IF g.raised THEN g.msg
                  ELSE IF fault # "" THEN fault
                  ELSE IF sid \notin stores THEN NotFound
                  ELSE IF body.raised THEN body.msg ELSE ""
           calls == IF g.raised THEN <<>> ELSE <<"list_documents">>
       IN  IF err # ""
           THEN Respond("list_documents", req, HTTPException(500, err), calls, sid, FALSE)
           ELSE last' = Response("list_documents", req, 200, [documents |-> body.value],
                                 calls, sid, FALSE)
    /\ UNCHANGED <<apiKey, arg, res, remoteVars, diskVars>>

DocIndex(sid, did) ==
    {i \in DocsOf(sid) : DocSeq[i] = did}

\* GET {prefix}/documents/{document_id}: store_id is no path parameter of the
\* route, so it is a required query parameter (422 without it); every
\* exception becomes a 404
get_document(req, store_q, fault) ==
    /\ serving
    /\ IF IsNone(store_q)
       THEN /\ Respond("get_document", req, [status |-> 422, body |-> [detail |-> "Field required"]],
                       <<>>, "", FALSE)
            /\ UNCHANGED clientVars
       ELSE /\ Acquire
            /\ LET g == GeminiClient_init
                   sid == Val(store_q)
                   did == PathParam(req.method, req.path, "{document_id}")
                   found == DocIndex(sid, did)
                   body == DocumentSummary(DocRecord(Min(found)))
                   err == IF g.raised THEN g.msg
                          ELSE IF fault # "" THEN fault
                          ELSE IF found = {} THEN NotFound
                          ELSE IF body.raised THEN body.msg ELSE ""
                   calls == IF g.raised THEN <<>> ELSE <<"get_document">>
               IN  IF err # ""
                   THEN Respond("get_document", req, HTTPException(404, err), calls, sid, FALSE)
                   ELSE last' = Response("get_document", req, 200, body.value, calls, sid, FALSE)
    /\ UNCHANGED <<apiKey, arg, res, remoteVars, diskVars>>

\* DELETE {prefix}/{store_id}/documents/{document_id}: always force=True
delete_document(req, fault) ==
    /\ serving
    /\ Acquire
    /\ LET g == GeminiClient_init
           sid == PathParam(req.method, req.path, "{store_id}")
           did == PathParam(req.method, req.path, "{document_id}")
           found == DocIndex(sid, did)
           config == ForceConfig(TRUE)
           err == IF g.raised THEN g.msg
                  ELSE IF fault # "" THEN fault
                  ELSE IF found = {} THEN NotFound
                  ELSE IF "force" \notin DOMAIN config THEN NotEmpty ELSE ""
           calls == IF g.raised THEN <<>> ELSE <<"delete_document">>
       IN  IF err # ""
           THEN /\ Respond("delete_document", req, HTTPException(500, err), calls, sid, TRUE)
                /\ UNCHANGED uploads
           ELSE /\ uploads' = [uploads EXCEPT ![Min(found)].doc = FALSE]
                /\ last' = Response("delete_document", req, 200,
                              [message |-> "Document deleted successfully"],
                              calls, sid, TRUE)
    /\ UNCHANGED <<apiKey, arg, res, stores, created, diskVars>>

\* GET {prefix}/operations/{operation_id}: one get_operation call
get_operation_status(req, fault) ==
    /\ serving
    /\ Acquire
    /\ LET g == GeminiClient_init
           oid == PathParam(req.method, req.path, "{operation_id}")
           found == {i \in 1..Len(uploads) : OpSeq[i] = oid}
           operation == [name |-> Some(oid), done |-> Some(uploads[Min(found)].done)]
           err == IF g.raised THEN g.msg
                  ELSE IF fault # "" THEN fault
                  ELSE IF found = {} THEN NotFound ELSE ""
           calls == IF g.raised THEN <<>> ELSE <<"get_operation">>
       IN  IF err # ""
           THEN Respond("get_operation_status", req, HTTPException(500, err), calls, "", FALSE)
           ELSE last' = Response("get_operation_status", req, 200,
                            [name |-> operation.name, done |-> operation.done,
                             metadata |-> getattr(operation, "metadata", None)],
                            calls, "", FALSE)
    /\ UNCHANGED <<apiKey, arg, res, remoteVars, diskVars>>

\* -------------------------------------------------- query.py handlers
\* the generate_content responses the service returns in this specification
Chunk(t, u) == [retrieved_context |-> Some([title |-> Some(t), uri |-> Some(u)])]
Grounded(text, chunks) ==
    [text |-> Some(text),
     candidates |-> Some(<<[grounding_metadata |-> Some([grounding_chunks |-> Some(chunks)])]>>)]
Responses ==
    {Grounded(<<"*", "a", "*">>, <<Chunk(<<"A">>, <<"u1">>)>>),
     [text |-> None, candidates |-> None]}

\* POST /api/query
search(req, response, fault) ==
    /\ serving
    /\ Acquire
    /\ LET g == GeminiClient_init
           result == SearchResult(response)
           err == IF g.raised THEN g.msg
                  ELSE IF fault # "" THEN fault
                  ELSE IF result.raised THEN result.msg ELSE ""
           calls == IF g.raised THEN <<>> ELSE <<"generate_content">>
       IN  IF err # ""
           THEN Respond("search", req, HTTPException(500, err), calls, "", FALSE)
           ELSE last' = Response("search", req, 200, result.value, calls, "", FALSE)
    /\ UNCHANGED <<apiKey, arg, res, remoteVars, diskVars>>

\* POST /api/query/document/{document_id}: query is a required query
\* parameter; the document id goes to the service as it came
query_document(req, query_q, fault) ==
    /\ serving
    /\ IF IsNone(query_q)
       THEN /\ Respond("query_document", req,
                       [status |-> 422, body |-> [detail |-> "Field required"]],
                       <<>>, "", FALSE)
            /\ UNCHANGED clientVars
       ELSE /\ Acquire
            /\ LET g == GeminiClient_init
                   did == PathParam(req.method, req.path, "{document_id}")
                   err == IF g.raised THEN g.msg ELSE fault
                   calls == IF g.raised THEN <<>> ELSE <<"query_document">>
               IN  IF err # ""
                   THEN Respond("query_document", req, HTTPException(500, err), calls, "", FALSE)
                   ELSE last' = Response("query_document", req, 200,
                                    [document |-> did], calls, "", FALSE)
    /\ UNCHANGED <<apiKey, arg, res, remoteVars, diskVars>>

\* ------------------------------------------------------------ main.py
\* GET / and GET /stores/{store_id}: the two HTML pages
page(req) ==
    /\ serving
    /\ last' = Response(Dispatch(req.method, req.path), req, 200,
                        [html |-> TRUE], <<>>, "", FALSE)
    /\ UNCHANGED <<apiKey, arg, res, clientVars, remoteVars, diskVars>>

\* a request no route takes: 404 Not Found, or 405 when the path matches
\* under another method
no_route(req) ==
    /\ serving
    /\ last' = Response("", req,
                        IF Dispatch(req.method, req.path) = "405" THEN 405 ELSE 404,
                        [detail |-> IF Dispatch(req.method, req.path) = "405"
                                    THEN "Method Not Allowed" ELSE "Not Found"],
                        <<>>, "", FALSE)
    /\ UNCHANGED <<apiKey, arg, res, clientVars, remoteVars, diskVars>>

\* ------------------------------------------------------- environment
\* the service finishes ingesting upload i
ingest(i) ==
    /\ i \in 1..Len(uploads)
    /\ ~uploads[i].done
    /\ uploads' = [uploads EXCEPT ![i].done = TRUE]
    /\ UNCHANGED <<apiKey, arg, res, clientVars, stores, created, diskVars, last>>

\* GeminiClient() called outside a request handler; it raises ValueError
\* without the key, and the wrapper object stays in cls._instance
acquire ==
    /\ Acquire
    /\ UNCHANGED <<apiKey, arg, res, remoteVars, diskVars, last>>

\* -------------------------------------------------------- specification
DisplayNames == {Some(StoreDisplayName)}
MetadataForms == {None, Some(<<"{">>), Some(<<"{", "a", ":", "x", "}">>)}
ForceParams == {None, Some(FALSE), Some(TRUE)}
StoreParams == {None} \cup {Some(s) : s \in StoreIds}
QueryParams == {None, Some(<<"q">>)}

NotRun == [done |-> FALSE]
Ran(out) == [done |-> TRUE, out |-> out]
UploadRequests ==
    [tmp : 1..MaxUploads, req : RequestsFor("upload_document"), metadata : MetadataForms]

NoRequest ==
    [handler |-> "", method |-> "", path |-> <<>>, status |-> 0, body |-> <<>>,
     calls |-> <<>>, sid |-> "", force |-> FALSE, held |-> {}]

Init ==
    /\ apiKey \in BOOLEAN
    /\ instance = 0
    /\ client = 0
    /\ objects = 0
    /\ transports = 0
    /\ stores = {}
    /\ created = 0
    /\ uploads = <<>>
    /\ tmpFiles = {}
    /\ nextTmp = 0
    /\ inflight = {}
    /\ issued = <<>>
    /\ last = NoRequest
    /\ arg = <<>>
    /\ res = NotRun

Next ==
    \/ \E req \in RequestsFor("create_store"), d \in DisplayNames, f \in Outcomes :
          create_store(req, d, f)
    \/ \E req \in RequestsFor("list_stores"), f \in Outcomes : list_stores(req, f)
    \/ \E req \in RequestsFor("get_store"), f \in Outcomes : get_store(req, f)
    \/ \E req \in RequestsFor("delete_store"), q \in ForceParams, f \in Outcomes :
          delete_store(req, q, f)
    \/ \E req \in RequestsFor("upload_document"), m \in MetadataForms : upload_begin(req, m)
    \/ \E u \in UploadRequests, f \in Outcomes : upload_finish(u, f)
    \/ \E req \in RequestsFor("list_documents"), f \in Outcomes : list_documents(req, f)
    \/ \E req \in RequestsFor("get_document"), q \in StoreParams, f \in Outcomes :
          get_document(req, q, f)
    \/ \E req \in RequestsFor("delete_document"), f \in Outcomes : delete_document(req, f)
    \/ \E req \in RequestsFor("get_operation_status"), f \in Outcomes :
          get_operation_status(req, f)
    \/ \E req \in RequestsFor("search"), r \in Responses, f \in Outcomes : search(req, r, f)
    \/ \E req \in RequestsFor("query_document"), q \in QueryParams, f \in Outcomes :
          query_document(req, q, f)
    \/ \E req \in RequestsFor("dashboard") \cup RequestsFor("store_detail") : page(req)
    \/ \E req \in RequestsFor("404") \cup RequestsFor("405") : no_route(req)
    \/ \E i \in 1..MaxUploads : ingest(i)
    \/ acquire

Spec == Init /\ [][Next]_vars

\* ------------------------------------------- function specifications
\* The server at rest, while one function of the source is applied to arg.
Idle ==
    /\ apiKey = TRUE
    /\ instance = 0
    /\ client = 0
    /\ objects = 0
    /\ transports = 0
    /\ stores = {}
    /\ created = 0
    /\ uploads = <<>>
    /\ tmpFiles = {}
    /\ nextTmp = 0
    /\ inflight = {}
    /\ issued = <<>>
    /\ last = NoRequest
    /\ res = NotRun

serverVars == <<apiKey, instance, client, objects, transports, stores, created,
                uploads, tmpFiles, nextTmp, inflight, issued, last>>

Opt(S) == {None} \cup {Some(x) : x \in S}
SeqsUpTo(S, n) == UNION {[1..k -> S] : k \in 0..n}

\* ---- search(): the body built from a generate_content response
MaxForms == 3
MaxChunks == 2
MaxCandidates == 2

\* a text is a sequence of pieces: plain text (d empty) or an emphasis form,
\* the inner content x between two delimiters d
Delims == {<<"*", "*">>, <<"_", "_">>, <<"*">>, <<"_">>}
Inners == {<<"a">>, <<"a", "*", "b">>, <<"a", "_", "b">>}
\* (a one-character delimiter never encloses its own character)
Pieces ==
    {[d |-> <<>>, x |-> <<" ">>]}
    \cup {p \in [d : Delims, x : Inners] :
            Len(p.d) = 2 \/ \A i \in 1..Len(p.x) : p.x[i] # p.d[1]}

RECURSIVE Render(_)
Render(ps) ==
    IF Len(ps) = 0 THEN <<>>
    ELSE Head(ps).d \o Head(ps).x \o Head(ps).d \o Render(Tail(ps))

RECURSIVE Inner(_)
Inner(ps) == IF Len(ps) = 0 THEN <<>> ELSE Head(ps).x \o Inner(Tail(ps))

P(d, x) == [d |-> d, x |-> x]
\* "**bold** and *italic* and __also__ and _this_"
SpecExample ==
    <<P(<<"*", "*">>, <<"b", "o", "l", "d">>), P(<<>>, <<" ", "a", "n", "d", " ">>),
      P(<<"*">>, <<"i", "t", "a", "l", "i", "c">>), P(<<>>, <<" ", "a", "n", "d", " ">>),
      P(<<"_", "_">>, <<"a", "l", "s", "o">>), P(<<>>, <<" ", "a", "n", "d", " ">>),
      P(<<"_">>, <<"t", "h", "i", "s">>)>>
\* "bold and italic and also and this"
SpecExampleStripped ==
    <<"b", "o", "l", "d", " ", "a", "n", "d", " ", "i", "t", "a", "l", "i", "c",
      " ", "a", "n", "d", " ", "a", "l", "s", "o", " ", "a", "n", "d", " ",
      "t", "h", "i", "s">>

\* a citation whose title and uri hold emphasis markers of their own
MarkedTitle == <<"*", "A", "*">>
MarkedUri == <<"_", "u", "_">>
TextResponse(t) == Grounded(t, <<Chunk(MarkedTitle, MarkedUri)>>)

\* the grounding structures: every attribute missing, None or set
Contexts ==
    {[title |-> Some(<<"A">>), uri |-> Some(<<"u1">>)],
     [title |-> Some(<<"B">>), uri |-> Some(<<"u2">>)],
     [title |-> None, uri |-> None],
     [text |-> Some(<<"t">>)]}
Chunks == {[web |-> None]} \cup {[retrieved_context |-> c] : c \in Opt(Contexts)}
Groundings ==
    {[web_search_queries |-> None]}
    \cup {[grounding_chunks |-> cs] : cs \in Opt(SeqsUpTo(Chunks, MaxChunks))}
FirstCandidates ==
    {[index |-> Some(0)]} \cup {[grounding_metadata |-> g] : g \in Opt(Groundings)}
OtherCandidate ==
    [grounding_metadata |-> Some([grounding_chunks |-> Some(<<Chunk(<<"C">>, <<"u3">>)>>)])]
CandidateLists ==
    {<<c>> \o rest : c \in FirstCandidates,
                     rest \in SeqsUpTo({OtherCandidate}, MaxCandidates - 1)}
GroundingResponses ==
    {[text |-> Some(<<"a">>), candidates |-> Some(cs)] : cs \in CandidateLists}
    \cup {[text |-> t, candidates |-> cs] : t \in {None, Some(<<"a">>)},
                                            cs \in {None, Some(<<>>)}}
    \cup {[text |-> Some(<<"a">>)], [candidates |-> Some(<<OtherCandidate>>)]}

SearchInputs ==
    {[kind |-> "text", pieces |-> ps, response |-> TextResponse(Render(ps))] :
        ps \in SeqsUpTo(Pieces, MaxForms) \cup {SpecExample}}
    \cup {[kind |-> "grounding", pieces |-> <<>>, response |-> r] :
            r \in GroundingResponses}

apply_search ==
    /\ ~res.done
    /\ res' = Ran(SearchResult(arg.response))
    /\ UNCHANGED <<arg, serverVars>>

SearchInit == Idle /\ arg \in SearchInputs
SearchSpec == SearchInit /\ [][apply_search]_vars

\* ---- list_stores / get_store / list_documents / get_document: the summary
\* of one remote record whose optional attributes are missing, None or set
RequiredValue == Some(<<"v">>)
StoreRecords ==
    {[f \in StoreRequired \cup present |->
         IF f \in StoreRequired THEN RequiredValue
         ELSE IF f \in none THEN None ELSE Some(1)] :
        <<present, none>> \in {pn \in (SUBSET StoreOptional) \X (SUBSET StoreOptional) :
                                 pn[2] \subseteq pn[1]}}
MetadataEntry == [key |-> "author", string_value |-> "x"]
DocOptional == {"size_bytes", "custom_metadata"}
DocRecords ==
    {[f \in (DocRequired \ {"size_bytes"}) \cup present |->
         IF f \in DocRequired \ {"size_bytes"} THEN RequiredValue
         ELSE IF f \in none THEN None
         ELSE IF f = "size_bytes" THEN Some(1) ELSE Some(ms)] :
        <<present, none, ms>> \in
            {pn \in (SUBSET DocOptional) \X (SUBSET DocOptional) \X {<<>>, <<MetadataEntry>>} :
                pn[2] \subseteq pn[1]}}
SummaryInputs ==
    {[kind |-> "store", record |-> r] : r \in StoreRecords}
    \cup {[kind |-> "document", record |-> r] : r \in DocRecords}

apply_summary ==
    /\ ~res.done
    /\ res' = Ran(IF arg.kind = "store" THEN StoreSummary(arg.record)
                  ELSE DocumentSummary(arg.record))
    /\ UNCHANGED <<arg, serverVars>>

SummaryInit == Idle /\ arg \in SummaryInputs
SummarySpec == SummaryInit /\ [][apply_summary]_vars

\* ---- GeminiClient.upload_document: the config built from a metadata map
MaxPairs == 2
MetaKeys == {"author", "topic", "year"}
MetaValues == {"x", "y"}
MetadataMaps ==
    {d \in SeqsUpTo([key : MetaKeys, value : MetaValues], MaxPairs) :
        \A i, j \in 1..Len(d) : i # j => d[i].key # d[j].key}
UploadConfigInputs ==
    [display_name : {None, Some(Filename)},
     metadata : {None} \cup {Some([type |-> "dict", items |-> d]) : d \in MetadataMaps}]

apply_upload_config ==
    /\ ~res.done
    /\ res' = Ran(UploadConfig(arg.display_name, arg.metadata))
    /\ UNCHANGED <<arg, serverVars>>

UploadConfigInit == Idle /\ arg \in UploadConfigInputs
UploadConfigSpec == UploadConfigInit /\ [][apply_upload_config]_vars

\* ====================================================== properties

\* ---- C1: in every terminal state of an upload request (200 or error) the
\* temporary file that request created is gone: the only temporary files on
\* disk belong to upload requests still in flight.
TempFilesReleased == tmpFiles \subseteq {u.tmp : u \in inflight}

\* ---- C2: a failed API request answers 404 exactly when it is a lookup
\* (get_store, get_document) whose remote resource is absent, and 500 for
\* every other failure, the lookup endpoints included (the framework's 422
\* for a missing parameter is not a handler's answer).
Lookups == {"get_store", "get_document"}
FailureStatusMapping ==
    (last.handler # "" /\ "detail" \in DOMAIN last.body /\ last.status # 422)
        => last.status = IF last.handler \in Lookups /\ last.body["detail"] = NotFound
                         THEN 404 ELSE 500

\* ---- C3: at most one transport and one wrapper are ever constructed;
\* once the wrapper exists every acquisition returns it, and once it holds a
\* transport that transport is never replaced nor another one built.
SingleTransport ==
    [][/\ transports' <= 1
       /\ objects' <= 1
       /\ (instance # 0 => instance' = instance)
       /\ (client # 0 => client' = client /\ transports' = transports)]_vars

\* two requests were served through the one transport
SingleTransportWitness ==
    created = 2 /\ transports = 1 /\ objects = 1 /\ instance = 1 /\ client = 1

\* ---- C4: an upload request issues the upload call and no poll, and its
\* 200 answer carries the operation handle the service returned; a GET
\* operation request issues exactly one poll; no two uploads are answered
\* with the same operation name.
UploadHandle ==
    /\ last.handler = "upload_document" =>
          /\ \A i \in 1..Len(last.calls) : last.calls[i] # "get_operation"
          /\ last.status = 200 =>
                /\ last.calls = <<"upload_to_file_search_store">>
                /\ DOMAIN last.body = {"operation_name", "done", "message"}
                /\ last.body["operation_name"] = issued[Len(issued)]
    /\ last.handler = "get_operation_status" => last.calls = <<"get_operation">>
    /\ \A i, j \in 1..Len(issued) : i # j => issued[i] # issued[j]

\* after two uploads, a poll of an issued operation name reports done = true
UploadHandleWitness ==
    /\ Len(issued) = 2
    /\ last.handler = "get_operation_status"
    /\ last.status = 200
    /\ \E i \in 1..Len(issued) : issued[i] = last.body["name"]
    /\ last.body["done"] = Some(TRUE)

\* ---- C5: a DELETE without force (omitted or false) of a store that holds
\* documents is answered with an error and leaves the store and its
\* documents as they were; a DELETE with force=true that the service carries
\* out is answered 200 and the store is gone; every GET of a store that was
\* deleted is answered 404.
Deleted == {IdSeq[i] : i \in 1..created} \ stores
CascadeDelete ==
    /\ (last.handler = "delete_store" /\ ~last.force /\ last.held # {}) =>
          /\ last.status = 500
          /\ "detail" \in DOMAIN last.body
          /\ last.sid \in stores
          /\ DocsOf(last.sid) = last.held
    /\ (last.handler = "delete_store" /\ last.force) =>
          \/ last.status = 200 /\ last.sid \in Deleted /\ DocsOf(last.sid) = {}
          \/ last.status = 500 /\ last.body["detail"] \in Faults \cup {NotFound}
    /\ (last.handler = "get_store" /\ last.sid \in Deleted) => last.status = 404

\* a store that held a document was deleted with force=true and answered 200
CascadeDeleteWitness ==
    /\ last.handler = "delete_store"
    /\ last.force
    /\ last.held # {}
    /\ last.status = 200
    /\ last.sid \in Deleted

\* ---- C6: for an existing store, POST /api/stores/{id}/upload reaches the
\* upload handler and its success is 200 with operation_name, done and the
\* message 'Upload initiated'; GET /api/stores/{id}/documents reaches the
\* list handler and its success is 200 with a 'documents' list.
DocumentRoutesUnderApi ==
    \A s \in stores :
        /\ (last.method = "POST" /\ last.path = <<"api", "stores", s, "upload">>) =>
              /\ last.handler = "upload_document"
              /\ "detail" \notin DOMAIN last.body =>
                    /\ last.status = 200
                    /\ DOMAIN last.body = {"operation_name", "done", "message"}
                    /\ last.body["message"] = "Upload initiated"
        /\ (last.method = "GET" /\ last.path = <<"api", "stores", s, "documents">>) =>
              /\ last.handler = "list_documents"
              /\ "detail" \notin DOMAIN last.body =>
                    /\ last.status = 200
                    /\ DOMAIN last.body = {"documents"}

\* ---- C7: the citation list of a search response holds exactly one
\* {title, uri} record for each grounding chunk of the first candidate that
\* carries retrieved-context data, in the chunks' order; a chunk without
\* retrieved-context gives no record, other candidates give nothing, and a
\* response with no candidates gives the empty list.
CarriesContext(chunk) ==
    hasattr(chunk, "retrieved_context") /\ ~IsNone(chunk.retrieved_context)
Present(o, f) == hasattr(o, f) /\ ~IsNone(o[f])
FirstCandidateChunks(response) ==
    IF Present(response, "candidates") /\ Len(Val(response.candidates)) > 0
    THEN LET c == Val(response.candidates)[1]
         IN  IF Present(c, "grounding_metadata")
                /\ Present(Val(c.grounding_metadata), "grounding_chunks")
             THEN Val(Val(c.grounding_metadata).grounding_chunks)
             ELSE <<>>
    ELSE <<>>
CitationsOfFirstCandidate ==
    (res.done /\ arg.kind = "grounding" /\ ~res.out.raised) =>
        LET want == SelectSeq(FirstCandidateChunks(arg.response), CarriesContext)
            got == res.out.value.citations
        IN  /\ Len(got) = Len(want)
            /\ \A i \in 1..Len(want) :
                  LET ctx == Val(want[i].retrieved_context)
                  IN  /\ got[i].title = getattr(ctx, "title", Some(<<>>))
                      /\ got[i].uri = getattr(ctx, "uri", Some(<<>>))

\* ---- C8: whichever optional count, size or metadata fields a store or
\* document record omits, its summary succeeds and holds the complete field
\* set, each omitted count or size being zero and omitted metadata the empty
\* list.
Omits(r, f) == ~Present(r, f)
SummaryDefaults ==
    res.done =>
        /\ ~res.out.raised
        /\ DOMAIN res.out.value = IF arg.kind = "store" THEN StoreFields ELSE DocFields
        /\ \A f \in (StoreOptional \cup {"size_bytes"}) \cap DOMAIN res.out.value :
              Omits(arg.record, f) => res.out.value[f] = Some(0)
        /\ (arg.kind = "document" /\ Omits(arg.record, "custom_metadata")) =>
              res.out.value["custom_metadata"] = Some(<<>>)

\* ---- C9: every **x**, __x__, *x* and _x_ form of the generated text is
\* collapsed to its inner content x, and the citations returned are the
\* ones extracted, markers in their titles and uris intact.
MarkedCitations == <<[title |-> Some(MarkedTitle), uri |-> Some(MarkedUri)]>>
StripsEveryForm ==
    (res.done /\ arg.kind = "text") =>
        /\ ~res.out.raised
        /\ res.out.value.text = Inner(arg.pieces)
        /\ res.out.value.citations = MarkedCitations

\* What the four substitutions do achieve: the collapse holds for texts in
\* which no inner content and no plain stretch holds a '*' or '_', no inner
\* content is empty, and no two emphasis forms delimited by the same
\* character stand directly side by side; the citations are untouched for
\* every text.
MarkerFree(x) == \A i \in 1..Len(x) : x[i] \notin {"*", "_"}
Separated(ps) ==
    \A i \in 1..(Len(ps) - 1) :
        \/ ps[i].d = <<>>
        \/ ps[i + 1].d = <<>>
        \/ ps[i].d[1] # ps[i + 1].d[1]
Plain(ps) == \A i \in 1..Len(ps) : Len(ps[i].x) > 0 /\ MarkerFree(ps[i].x)
StripsPlainForms ==
    (res.done /\ arg.kind = "text") =>
        /\ ~res.out.raised
        /\ (Plain(arg.pieces) /\ Separated(arg.pieces)) =>
              res.out.value.text = Inner(arg.pieces)
        /\ res.out.value.citations = MarkedCitations

\* the spec's example text, stripped
StripsPlainFormsWitness ==
    /\ res.done
    /\ arg.kind = "text"
    /\ arg.pieces = SpecExample
    /\ res.out.value.text = SpecExampleStripped
    /\ res.out.value.citations = MarkedCitations

\* ---- C10: the config sent with an upload carries custom metadata as a
\* list with exactly one {key, string_value} pair per entry of the metadata
\* map, same keys and values in the map's order, and no custom_metadata
\* field at all when the map is empty or absent.
MetadataTransmitted ==
    res.done =>
        /\ ~res.out.raised
        /\ LET config == res.out.value
               items == IF IsNone(arg.metadata) THEN <<>> ELSE Val(arg.metadata).items
           IN  IF Len(items) = 0
               THEN "custom_metadata" \notin DOMAIN config
               ELSE /\ "custom_metadata" \in DOMAIN config
                    /\ Len(config["custom_metadata"]) = Len(items)
                    /\ \A i \in 1..Len(items) :
                          /\ DOMAIN config["custom_metadata"][i] = {"key", "string_value"}
                          /\ config["custom_metadata"][i].key = items[i].key
                          /\ config["custom_metadata"][i].string_value = items[i].value

\* {"author": "x", "topic": "y"} was sent as two pairs
MetadataTransmittedWitness ==
    /\ res.done
    /\ ~IsNone(arg.metadata)
    /\ Val(arg.metadata).items = <<[key |-> "author", value |-> "x"],
                                   [key |-> "topic", value |-> "y"]>>
    /\ res.out.value["custom_metadata"] =
          <<[key |-> "author", string_value |-> "x"],
            [key |-> "topic", string_value |-> "y"]>>

\* ---- C11: a request issues at most one call to the remote service; when
\* that call fails, the request is answered with an error whose detail is
\* the remote error message, and stores, documents and operations are left as
\* they were before the request: nothing was issued again.  (A step that
\* changes the last response is a request being answered; an error raised
\* while shaping a response the service did return is no failed call.)
RemoteErrors == Faults \cup {NotFound, NotEmpty}
ShapingErrors == {SearchResult(r).msg : r \in {x \in Responses : SearchResult(x).raised}}
NoRetry ==
    [][last' # last =>
          /\ Len(last'.calls) <= 1
          /\ (/\ Len(last'.calls) = 1
              /\ "detail" \in DOMAIN last'.body
              /\ last'.body["detail"] \notin ShapingErrors) =>
                /\ last'.status \in {404, 500}
                /\ last'.body["detail"] \in RemoteErrors
                /\ remoteVars' = remoteVars]_vars

\* a delete of a document failed in the service while stores and uploads
\* existed, and the answer is 500 with the service's message
NoRetryWitness ==
    /\ last.handler = "delete_document"
    /\ last.calls = <<"delete_document">>
    /\ last.status = 500
    /\ last.body["detail"] \in Faults
    /\ DocsOf(last.sid) # {}

\* ---- C12: an upload request whose metadata form field is not valid JSON
\* is answered 500 with an error detail, issues no upload call to the remote
\* service, and creates no operation there.
InvalidJson == {<<"{">>}
MalformedMetadata ==
    [][\A u \in UploadRequests :
          (/\ u \in inflight
           /\ u \notin inflight'
           /\ ~IsNone(u.metadata)
           /\ Val(u.metadata) \in InvalidJson) =>
              /\ last'.handler = "upload_document"
              /\ last'.path = u.req.path
              /\ last'.status = 500
              /\ "detail" \in DOMAIN last'.body
              /\ last'.calls = <<>>
              /\ uploads' = uploads
              /\ issued' = issued]_vars

\* an upload to an existing store with the metadata text '{' was answered
\* 500 with the parser's message and no operation exists
MalformedMetadataWitness ==
    /\ last.handler = "upload_document"
    /\ last.sid \in stores
    /\ last.status = 500
    /\ last.body["detail"] = json_loads(<<"{">>).msg
    /\ last.calls = <<>>
    /\ uploads = <<>>
    /\ inflight = {}

====
